---- MODULE Spec2Model ----
(***************************************************************************)
(* FlickPick client: the Session Store (src/contexts/AuthContext.tsx), the *)
(* signup form (SignupForm) and the Content Detail View (DetailPage.tsx)   *)
(* as state machines over one browser page.                                *)
(*                                                                         *)
(* Every asynchronous function of the source is split at its awaits: the   *)
(* call up to the first await is one action, the continuation after each   *)
(* await another.  A function of a React component reads the state of the  *)
(* render it was created in, so an operation that is suspended at an await *)
(* carries the `user` it captured when it was called.                      *)
(***************************************************************************)
EXTENDS Integers, Sequences, FiniteSets, Bags, TLC

\* ------------------------------------------------------------------ bounds
MaxWatchlist == 3      \* addToWatchlist is called on shorter watchlists only
MaxInFlight == 2       \* profile loads + profile writes + timers in flight
MaxFetches == 2        \* metadata fetches in flight

\* ------------------------------------------------------------- value sets
Principals == {"u1", "u2"}          \* user principals of the auth provider
NoSession == "null"                 \* session === null
Null == [null |-> TRUE]             \* user === null, content === null
MovieIds == {1}
AvatarDefault == "default"          \* the literal avatar of AuthContext.tsx:101
NoError == "null"                   \* { error: null }

Range(s) == {s[i] : i \in 1..Len(s)}

\* ----------------------------------------------------------------- state
VARIABLES
    user,          \* AuthProvider state `user`: Null or an Identity record
    session,       \* AuthProvider state `session`: NoSession or its principal
    loading,       \* AuthProvider state `loading`
    getSessionPc,  \* position of getSession(): "pending", "profile", "done"
    timers,        \* setTimeout(..., 0) callbacks not yet run (principals, FIFO)
    loads,         \* bag of loadUserProfile calls awaiting the profiles select
    writes,        \* bag of profile updates awaiting their response
    authOp,        \* login / signup / logout call in progress and its await
    nav,           \* window.location.href assigned by the store, or "none"
    ret,           \* outcome of the operation that completed in the last step
    folded,        \* history: the watchlist calls folded in call order
    foldOk,        \* history: no write has failed since `folded` was started
    remote,        \* the watchlist of the identity's row in the remote table
    applied,       \* bag of the writes the remote table has applied, of `writes`
    password, confirmPassword, isLoading, formEvent,   \* SignupForm
    mounted, routeId, routeType, content, viewLoading, fetches,
    isPlaying, toast, viewEvent                           \* DetailPage

storeVars == <<user, session, loading, getSessionPc, timers, loads, writes,
               authOp, nav, ret>>
foldVars == <<folded, foldOk>>
remoteVars == <<remote, applied>>
histVars == <<foldVars, remoteVars>>
formVars == <<password, confirmPassword, isLoading, formEvent>>
viewVars == <<mounted, routeId, routeType, content, viewLoading, fetches,
              isPlaying, toast, viewEvent>>
vars == <<storeVars, histVars, formVars, viewVars>>

\* ------------------------------------------------- values of the source
\* Partial<UserProfile> values passed to updateProfile.
Partials == { [avatar |-> "cat"] }
\* Arguments of completeOnboarding.
OnboardingArgs == { [avatar |-> "cat", genres |-> <<28>>] }

\* What the provider's signOut({scope}) can do: resolve with {error: null},
\* resolve with {error}, or reject.
SignOutOutcomes ==
    { [kind |-> "resolved", error |-> NoError],
      [kind |-> "resolved", error |-> "AuthError"],
      [kind |-> "rejected", error |-> "FetchError"] }
\* What signInWithPassword / signUp can do: {data: {user}, error}, or reject.
SignInOutcomes ==
    { [kind |-> "resolved", error |-> NoError, hasUser |-> TRUE],
      [kind |-> "resolved", error |-> NoError, hasUser |-> FALSE],
      [kind |-> "resolved", error |-> "AuthError", hasUser |-> FALSE],
      [kind |-> "rejected", error |-> "FetchError", hasUser |-> FALSE] }

EmailOf(p) == IF p = "u1" THEN "u1@mail" ELSE "u2@mail"
\* The rows the remote profiles table can hold for a principal when a select
\* is served: the row of a new account, and a row written to before.
ProfileRows(p) ==
    { [id |-> p, username |-> p, avatar |-> "", genre_preferences |-> <<>>,
       onboarding_completed |-> FALSE, watchlist |-> <<>>],
      [id |-> p, username |-> p, avatar |-> "cat", genre_preferences |-> <<28>>,
       onboarding_completed |-> TRUE, watchlist |-> <<1>>] }

\* The outcome of the operation that completed in the last step: what it
\* returned or threw, and what the provider answered in its last await.
NoOutcome == [kind |-> "none", error |-> NoError]
NoRet == [op |-> "none", value |-> "none", thrown |-> NoError,
          outcome |-> NoOutcome]
Returned(op, v, o) == [op |-> op, value |-> v, thrown |-> NoError, outcome |-> o]
Threw(op, o) == [op |-> op, value |-> "threw", thrown |-> o.error, outcome |-> o]

InFlight == BagCardinality(loads) + BagCardinality(writes) + Len(timers)

\* ------------------------------------------------------- pure functions
\* The object passed to setUser in loadUserProfile.
ProfileToUser(profile, authUser) ==
    [id |-> profile.id,
     username |-> profile.username,
     email |-> EmailOf(authUser),
     avatar |-> IF profile.avatar = "" THEN AvatarDefault ELSE profile.avatar,
     genre_preferences |-> profile.genre_preferences,
     onboarding_completed |-> profile.onboarding_completed,
     watchlist |-> profile.watchlist]

\* { ...u, ...updates }
Merge(u, updates) ==
    [k \in DOMAIN u |-> IF k \in DOMAIN updates THEN updates[k] ELSE u[k]]

\* AddUpdated leaving out an id that is in the watchlist already.
AddUpdated_Dedup(w, movieId) ==
    IF movieId \in Range(w) THEN w ELSE Append(w, movieId)

\* [...user.watchlist, movieId]
AddUpdated(w, movieId) == Append(w, movieId)

\* user.watchlist.filter(id => id !== movieId)
RemoveUpdated(w, movieId) == SelectSeq(w, LAMBDA x : x # movieId)

\* user?.watchlist.includes(movieId) || false
isInWatchlist(movieId) ==
    IF user = Null THEN FALSE ELSE movieId \in Range(user.watchlist)

\* ---------------------------------------------------------------- Init
StoreInit ==
    /\ user = Null
    /\ session = NoSession
    /\ loading = TRUE
    /\ getSessionPc = "pending"
    /\ timers = <<>>
    /\ loads = EmptyBag
    /\ writes = EmptyBag
    /\ authOp = "idle"
    /\ nav = "none"
    /\ ret = NoRet

\* ------------------------------------------- session lifecycle (store)
\* loadUserProfile up to its await: the profiles select is sent.
StartLoad(authUser, origin) ==
    loads' = loads (+) SetToBag({[authUser |-> authUser, origin |-> origin]})

\* GetSessionSettle without the finally block's setLoading(false) on the
\* paths that do not load a profile.
GetSessionSettle_NoFinally(sess, rejected) ==
    /\ nav = "none"
    /\ getSessionPc = "pending"
    /\ IF rejected
         THEN /\ getSessionPc' = "done"
              /\ UNCHANGED <<session, loads, loading>>
         ELSE /\ session' = sess
              /\ IF sess # NoSession
                   THEN /\ InFlight < MaxInFlight
                        /\ StartLoad(sess, "getSession")
                        /\ getSessionPc' = "profile"
                        /\ UNCHANGED loading
                   ELSE /\ getSessionPc' = "done"
                        /\ UNCHANGED <<loads, loading>>
    /\ ret' = NoRet
    /\ UNCHANGED <<user, timers, writes, authOp, nav>>

\* getSession(): `await supabase.auth.getSession()` settles.  It resolves with
\* the provider's session (or none) or rejects.
GetSessionSettle(sess, rejected) ==
    /\ nav = "none"
    /\ getSessionPc = "pending"
    /\ IF rejected
         THEN /\ loading' = FALSE
              /\ getSessionPc' = "done"
              /\ UNCHANGED <<session, loads>>
         ELSE /\ session' = sess
              /\ IF sess # NoSession
                   THEN /\ InFlight < MaxInFlight
                        /\ StartLoad(sess, "getSession")
                        /\ getSessionPc' = "profile"
                        /\ UNCHANGED loading
                   ELSE /\ loading' = FALSE
                        /\ getSessionPc' = "done"
                        /\ UNCHANGED loads
    /\ ret' = NoRet
    /\ UNCHANGED <<user, timers, writes, authOp, nav>>

\* onAuthStateChange with loadUserProfile called in the handler itself.
onAuthStateChange_LoadsInHandler(event, sess) ==
    /\ nav = "none"
    /\ session' = sess
    /\ IF event = "SIGNED_IN" /\ sess # NoSession
         THEN /\ InFlight < MaxInFlight
              /\ StartLoad(sess, "timer")
              /\ UNCHANGED <<user, loading>>
         ELSE IF event = "SIGNED_OUT"
         THEN /\ user' = Null
              /\ loading' = FALSE
              /\ UNCHANGED loads
         ELSE UNCHANGED <<user, loading, loads>>
    /\ ret' = NoRet
    /\ UNCHANGED <<getSessionPc, timers, writes, authOp, nav>>

\* The onAuthStateChange callback, run by the provider for one event.
onAuthStateChange(event, sess) ==
    /\ nav = "none"
    /\ session' = sess
    /\ IF event = "SIGNED_IN" /\ sess # NoSession
         THEN /\ InFlight < MaxInFlight
              /\ timers' = Append(timers, sess)
              /\ UNCHANGED <<user, loading>>
         ELSE IF event = "SIGNED_OUT"
         THEN /\ user' = Null
              /\ loading' = FALSE
              /\ UNCHANGED timers
         ELSE UNCHANGED <<user, loading, timers>>
    /\ ret' = NoRet
    /\ UNCHANGED <<getSessionPc, loads, writes, authOp, nav>>

\* The events the provider delivers: a sign-in carries the new session, a
\* sign-out none, a token refresh the session that is refreshed.
AuthEvent ==
    \/ \E p \in Principals : onAuthStateChange("SIGNED_IN", p)
    \/ onAuthStateChange("SIGNED_OUT", NoSession)
    \/ /\ session # NoSession
       /\ onAuthStateChange("TOKEN_REFRESHED", session)

\* The setTimeout(..., 0) callback starts: loadUserProfile(session.user).
TimerFire ==
    /\ nav = "none"
    /\ timers # <<>>
    /\ timers' = Tail(timers)
    /\ StartLoad(Head(timers), "timer")
    /\ ret' = NoRet
    /\ UNCHANGED <<user, session, loading, getSessionPc, writes, authOp, nav>>

\* LoadedUser with an identity made up from the auth user when the select
\* returned no profile.
LoadedUser_FallbackIdentity(l, row) ==
    IF row = Null
      THEN ProfileToUser([id |-> l.authUser, username |-> l.authUser,
                          avatar |-> "", genre_preferences |-> <<>>,
                          onboarding_completed |-> FALSE, watchlist |-> <<>>],
                         l.authUser)
      ELSE ProfileToUser(row, l.authUser)

\* The value of `user` after loadUserProfile's select has settled.
\* `row` is the profile the select returned, Null when it failed.
LoadedUser(l, row) ==
    IF row = Null THEN user ELSE ProfileToUser(row, l.authUser)

\* loadUserProfile after its await, and the caller's continuation: getSession's
\* finally block, or the timer callback's setLoading(false).  loadUserProfile
\* catches the select's error and returns normally.
LoadSettle(l, row) ==
    /\ nav = "none"
    /\ BagIn(l, loads)
    /\ loads' = loads (-) SetToBag({l})
    /\ user' = LoadedUser(l, row)
    /\ loading' = FALSE
    /\ getSessionPc' = IF l.origin = "getSession" THEN "done" ELSE getSessionPc
    /\ ret' = Returned("loadUserProfile", "void",
                       [kind |-> "resolved",
                        error |-> IF row = Null THEN "PostgrestError"
                                  ELSE NoError])
    /\ UNCHANGED <<session, timers, writes, authOp, nav>>

\* ------------------------------------------------ profile writes (store)
WatchlistOps == {"addToWatchlist", "removeFromWatchlist"}
WriteOps == {"updateProfile", "completeOnboarding"} \cup WatchlistOps

\* The guard every mutating operation starts with: `if (!user) return;`.
Gated == user = Null

\* The common shape of the four mutating operations up to their await: return
\* at once when gated, else send `update(updates).eq('id', user.id)`.  The
\* suspended call keeps the `user` of the render it was made in.
StartWrite(op, updates) ==
    /\ nav = "none"
    /\ IF Gated
         THEN /\ ret' = Returned(op, "void", NoOutcome)
              /\ UNCHANGED writes
         ELSE /\ InFlight < MaxInFlight
              /\ writes' = writes (+) SetToBag({[op |-> op, captured |-> user,
                                                 updates |-> updates]})
              /\ ret' = NoRet
    /\ UNCHANGED <<user, session, loading, getSessionPc, timers, loads, authOp,
                   nav>>

updateProfile(updates) ==
    StartWrite("updateProfile", updates)

completeOnboarding(avatar, genres) ==
    /\ StartWrite("completeOnboarding",
                  [avatar |-> avatar, genre_preferences |-> genres,
                   onboarding_completed |-> TRUE])

addToWatchlist(movieId) ==
    /\ user # Null => Len(user.watchlist) < MaxWatchlist
    /\ StartWrite("addToWatchlist",
                  [watchlist |-> IF Gated THEN <<>>
                                 ELSE AddUpdated(user.watchlist, movieId)])

removeFromWatchlist(movieId) ==
    /\ StartWrite("removeFromWatchlist",
                  [watchlist |-> IF Gated THEN <<>>
                                 ELSE RemoveUpdated(user.watchlist, movieId)])

\* SettledUser with the setUser call moved before `if (error) throw error`.
SettledUser_BeforeErrorCheck(w, error) == Merge(w.captured, w.updates)

\* The value of `user` after a write's response: `if (error) throw error;
\* setUser({ ...user, ...updates })` with the captured user.
SettledUser(w, error) ==
    IF error = NoError THEN Merge(w.captured, w.updates) ELSE user

\* A mutating operation after its await; `error` is what the update reported.
WriteSettle(w, error) ==
    /\ nav = "none"
    /\ BagIn(w, writes)
    /\ writes' = writes (-) SetToBag({w})
    /\ user' = SettledUser(w, error)
    /\ ret' = IF error = NoError
                THEN Returned(w.op, "void", [kind |-> "resolved", error |-> error])
                ELSE Threw(w.op, [kind |-> "resolved", error |-> error])
    /\ UNCHANGED <<session, loading, getSessionPc, timers, loads, authOp, nav>>

\* ------------------------------------------- login, signup, logout (store)
AuthIdle == nav = "none" /\ authOp = "idle"

\* The steps of login / signup / logout touch nothing but these.
AuthFrame ==
    UNCHANGED <<loading, getSessionPc, timers, loads, writes>>

\* login going to signInWithPassword at once.
login_SkipsSignOut ==
    /\ AuthIdle
    /\ authOp' = "login:signIn"
    /\ ret' = NoRet
    /\ AuthFrame
    /\ UNCHANGED <<user, session, nav>>

\* login up to `await supabase.auth.signOut({ scope: 'global' })`.
login ==
    /\ AuthIdle
    /\ authOp' = "login:signOut"
    /\ ret' = NoRet
    /\ AuthFrame
    /\ UNCHANGED <<user, session, nav>>

\* login after the sign-out settled: its value is not read; a rejection goes to
\* the catch block, anything else on to signInWithPassword.
loginAfterSignOut(o) ==
    /\ nav = "none"
    /\ authOp = "login:signOut"
    /\ IF o.kind = "rejected"
         THEN authOp' = "idle" /\ ret' = Threw("login", o)
         ELSE authOp' = "login:signIn" /\ ret' = NoRet
    /\ AuthFrame
    /\ UNCHANGED <<user, session, nav>>

\* AfterCredentials without `if (error) throw error`.
AfterCredentials_ErrorNotThrown(op, o, route) ==
    IF o.kind = "rejected"
      THEN ret' = Threw(op, o) /\ UNCHANGED nav
      ELSE IF o.hasUser
      THEN ret' = Returned(op, "true", o) /\ nav' = route
      ELSE ret' = Returned(op, "false", o) /\ UNCHANGED nav

\* What login / signup do with { data, error } of their last await: the value
\* returned or thrown, and the route navigated to.
AfterCredentials(op, o, route) ==
    IF o.kind = "rejected" \/ o.error # NoError
      THEN ret' = Threw(op, o) /\ UNCHANGED nav
      ELSE IF o.hasUser
      THEN ret' = Returned(op, "true", o) /\ nav' = route
      ELSE ret' = Returned(op, "false", o) /\ UNCHANGED nav

loginAfterSignIn(o) ==
    /\ nav = "none"
    /\ authOp = "login:signIn"
    /\ authOp' = "idle"
    /\ AfterCredentials("login", o, "/")
    /\ AuthFrame
    /\ UNCHANGED <<user, session>>

\* signup up to `await supabase.auth.signUp(...)`.
signup ==
    /\ AuthIdle
    /\ authOp' = "signup:signUp"
    /\ ret' = NoRet
    /\ AuthFrame
    /\ UNCHANGED <<user, session, nav>>

signupAfterSignUp(o) ==
    /\ nav = "none"
    /\ authOp = "signup:signUp"
    /\ authOp' = "idle"
    /\ AfterCredentials("signup", o, "/onboarding")
    /\ AuthFrame
    /\ UNCHANGED <<user, session>>

\* logout up to `await supabase.auth.signOut({ scope: 'global' })`.
logout ==
    /\ AuthIdle
    /\ authOp' = "logout:signOut"
    /\ ret' = NoRet
    /\ AuthFrame
    /\ UNCHANGED <<user, session, nav>>

\* LogoutCleared without setSession(null).
LogoutCleared_KeepsSession ==
    /\ user' = Null
    /\ UNCHANGED session
    /\ nav' = "/auth"

\* setUser(null); setSession(null); window.location.href = '/auth'
LogoutCleared ==
    /\ user' = Null
    /\ session' = NoSession
    /\ nav' = "/auth"

\* logout after the sign-out settled: the resolved value is not read, so only
\* a rejection reaches the catch block.
logoutAfterSignOut(o) ==
    /\ nav = "none"
    /\ authOp = "logout:signOut"
    /\ authOp' = "idle"
    /\ IF o.kind = "rejected"
         THEN /\ ret' = Threw("logout", o)
              /\ UNCHANGED <<user, session, nav>>
         ELSE /\ LogoutCleared
              /\ ret' = Returned("logout", "void", o)
    /\ UNCHANGED <<loading, getSessionPc, timers, loads, writes>>

\* ---------------------------------------------------------- SignupForm
MinPasswordLength == 6
\* The strings typed into the password fields, as sequences of characters.
Typed ==
    { <<>>,
      <<"a", "b", "c", "1", "2">>,
      <<"a", "b", "c", "d", "e", "f">>,
      <<"x", "y", "z", "x", "y", "z">>,
      <<"a", "b", "c", "d", "e", "f", "g">> }

FormInit ==
    /\ password = <<>>
    /\ confirmPassword = <<>>
    /\ isLoading = FALSE
    /\ formEvent = "none"

\* onChange of the two password inputs.
setPassword(v) ==
    /\ nav = "none"
    /\ password' = v
    /\ formEvent' = "none"
    /\ UNCHANGED <<confirmPassword, isLoading>>

setConfirmPassword(v) ==
    /\ nav = "none"
    /\ confirmPassword' = v
    /\ formEvent' = "none"
    /\ UNCHANGED <<password, isLoading>>

\* PassesValidation with the length compared against 5.
PassesValidation_OffByOne(pw, confirm) ==
    /\ ~(pw # confirm)
    /\ ~(Len(pw) < MinPasswordLength - 1)

\* handleSubmit gets past its two early returns.
PassesValidation(pw, confirm) ==
    /\ ~(pw # confirm)
    /\ ~(Len(pw) < MinPasswordLength)

\* handleSubmit up to `await signup(email, password, username)`.
handleSubmit ==
    /\ AuthIdle
    /\ IF PassesValidation(password, confirmPassword)
         THEN /\ isLoading' = TRUE
              /\ signup
              /\ formEvent' = "invoked"
         ELSE /\ formEvent' = "blocked"
              /\ ret' = NoRet
              /\ UNCHANGED <<isLoading, user, session, loading, getSessionPc,
                             timers, loads, writes, authOp, nav>>
    /\ UNCHANGED <<password, confirmPassword>>

\* handleSubmit after the await: the catch block logs, finally clears isLoading.
handleSubmitAfterSignup(o) ==
    /\ isLoading
    /\ signupAfterSignUp(o)
    /\ isLoading' = FALSE
    /\ formEvent' = "settled"
    /\ UNCHANGED <<password, confirmPassword>>

\* ---------------------------------------------------------- DetailPage
\* The :id route parameter as a sequence of characters; <<>> is a missing id.
RouteIds == { <<>>, <<"1", "3">>, <<"5", "5", "0">> }
RouteTypes == {"movie", "tv"}
NaN == -1

Digits == <<"0", "1", "2", "3", "4", "5", "6", "7", "8", "9">>
IsDigit(c) == c \in Range(Digits)
DigitValue(c) == (CHOOSE i \in 1..Len(Digits) : Digits[i] = c) - 1

\* parseInt(id): the number written by the leading digits, NaN without any.
RECURSIVE ParseDigits(_, _)
ParseDigits(str, acc) ==
    IF str = <<>> \/ ~IsDigit(Head(str)) THEN acc
    ELSE ParseDigits(Tail(str), 10 * acc + DigitValue(Head(str)))
parseInt(str) ==
    IF str = <<>> \/ ~IsDigit(Head(str)) THEN NaN ELSE ParseDigits(str, 0)

\* What the metadata client resolves with besides the id: a movie's details
\* carry a runtime in minutes, a series' details a number of seasons.
Runtimes == {0, 59, 135}
Details == { [runtime |-> r] : r \in Runtimes } \cup { [number_of_seasons |-> 2] }

ViewInit ==
    /\ mounted = FALSE
    /\ routeId = <<>>
    /\ routeType = "movie"
    /\ content = Null
    /\ viewLoading = TRUE
    /\ fetches = EmptyBag
    /\ isPlaying = FALSE
    /\ toast = "none"
    /\ viewEvent = "none"

\* The effect on [type, id]: fetchContent() up to its await when there is an
\* id, else setLoading(false).  `base` is the fetches still in flight.
RunEffect(type, id, base) ==
    IF id # <<>>
      THEN /\ BagCardinality(base) < MaxFetches
           /\ viewLoading' = TRUE
           /\ fetches' = base (+) SetToBag({[type |-> type, id |-> parseInt(id)]})
      ELSE /\ viewLoading' = FALSE
           /\ fetches' = base

\* The page is mounted at a route: fresh state, then the effect.
Mount(type, id) ==
    /\ nav = "none"
    /\ ~mounted
    /\ mounted' = TRUE
    /\ routeType' = type
    /\ routeId' = id
    /\ content' = Null
    /\ RunEffect(type, id, EmptyBag)
    /\ isPlaying' = FALSE
    /\ toast' = "none"
    /\ viewEvent' = "none"

\* The route of the mounted page changes: the effect runs again.
RouteChange(type, id) ==
    /\ nav = "none"
    /\ mounted
    /\ <<type, id>> # <<routeType, routeId>>
    /\ routeType' = type
    /\ routeId' = id
    /\ RunEffect(type, id, fetches)
    /\ toast' = "none"
    /\ viewEvent' = "none"
    /\ UNCHANGED <<mounted, content, isPlaying>>

\* The value of `content` after a fetch settled: setContent(data) on success,
\* nothing in the catch block.
FetchedContent(f, rejected, data) ==
    IF rejected THEN content
    ELSE IF "runtime" \in DOMAIN data
    THEN [id |-> f.id, kind |-> f.type, runtime |-> data.runtime]
    ELSE [id |-> f.id, kind |-> f.type,
          number_of_seasons |-> data.number_of_seasons]

\* fetchContent after its await: try / catch (toast) / finally.
FetchSettle(f, rejected, data) ==
    /\ nav = "none"
    /\ mounted
    /\ BagIn(f, fetches)
    /\ fetches' = fetches (-) SetToBag({f})
    /\ content' = FetchedContent(f, rejected, data)
    /\ viewLoading' = FALSE
    /\ toast' = IF rejected THEN "Error" ELSE "none"
    /\ viewEvent' = IF rejected THEN "rejected" ELSE "resolved"
    /\ UNCHANGED <<mounted, routeId, routeType, isPlaying>>

\* The page is unmounted: its state is dropped, and the fetches still in
\* flight no longer have a component to update.
Unmount ==
    /\ nav = "none"
    /\ mounted
    /\ mounted' = FALSE
    /\ routeId' = <<>>
    /\ routeType' = "movie"
    /\ content' = Null
    /\ viewLoading' = TRUE
    /\ fetches' = EmptyBag
    /\ isPlaying' = FALSE
    /\ toast' = "none"
    /\ viewEvent' = "none"

\* The third return of the component is the only one with buttons: it is
\* reached when loading is false and content is set.
DetailRendered == mounted /\ ~viewLoading /\ content # Null

\* What the runtime span shows.  `content.runtime && (...)` yields the span
\* for a non-zero runtime, the number itself for 0 (which React prints) and
\* nothing when there is no runtime.
RuntimeLabel(c) ==
    IF "runtime" \notin DOMAIN c THEN [shown |-> "nothing"]
    ELSE IF c.runtime = 0 THEN [shown |-> "number", value |-> c.runtime]
    ELSE [shown |-> "span", h |-> c.runtime \div 60, m |-> c.runtime % 60]

\* The 'Watch Now' button's handleWatch().
handleWatch ==
    /\ nav = "none"
    /\ DetailRendered
    /\ IF user = Null
         THEN /\ toast' = "Sign in required"
              /\ UNCHANGED isPlaying
         ELSE /\ isPlaying' = TRUE
              /\ toast' = "none"
    /\ viewEvent' = "watch"
    /\ UNCHANGED <<mounted, routeId, routeType, content, viewLoading, fetches>>

\* The watchlist button's handleWatchlistToggle(); the button is rendered
\* under `user &&`.  The store operation is called and not awaited, and the
\* confirmation is shown at once.
handleWatchlistToggle ==
    /\ nav = "none"
    /\ DetailRendered
    /\ user # Null
    /\ IF user = Null \/ content = Null
         THEN /\ toast' = "Sign in required"
              /\ UNCHANGED storeVars
         ELSE IF isInWatchlist(content.id)
         THEN /\ removeFromWatchlist(content.id)
              /\ toast' = "Removed from watchlist"
         ELSE /\ addToWatchlist(content.id)
              /\ toast' = "Added to watchlist"
    /\ viewEvent' = "toggle"
    /\ UNCHANGED <<mounted, routeId, routeType, content, viewLoading, fetches,
                   isPlaying>>

\* ------------------------------------------------------- specifications
Init ==
    /\ StoreInit
    /\ folded = <<>>
    /\ foldOk = FALSE
    /\ remote = <<>>
    /\ applied = EmptyBag
    /\ FormInit
    /\ ViewInit

\* window.location.href was assigned: the page is loaded anew, and nothing of
\* the old page's memory or pending callbacks survives.
PageLoad ==
    /\ nav # "none"
    /\ user' = Null /\ session' = NoSession /\ loading' = TRUE
    /\ getSessionPc' = "pending"
    /\ timers' = <<>> /\ loads' = EmptyBag /\ writes' = EmptyBag
    /\ authOp' = "idle" /\ nav' = "none" /\ ret' = NoRet
    /\ folded' = <<>> /\ foldOk' = FALSE
    /\ remote' = <<>> /\ applied' = EmptyBag
    /\ password' = <<>> /\ confirmPassword' = <<>>
    /\ isLoading' = FALSE /\ formEvent' = "none"
    /\ mounted' = FALSE /\ routeId' = <<>> /\ routeType' = "movie"
    /\ content' = Null /\ viewLoading' = TRUE /\ fetches' = EmptyBag
    /\ isPlaying' = FALSE /\ toast' = "none" /\ viewEvent' = "none"

NoForm == UNCHANGED formVars
NoView == UNCHANGED viewVars

NoOther == UNCHANGED <<histVars, formVars, viewVars>>

\* getSession() settles: with a session, without one, or by rejecting.
GetSession ==
    \/ \E sess \in Principals \cup {NoSession} : GetSessionSettle(sess, FALSE)
    \/ GetSessionSettle(NoSession, TRUE)

\* A profile select settles: with one of the principal's rows, or failing.
ProfileLoaded ==
    \E l \in BagToSet(loads) :
       \E row \in ProfileRows(l.authUser) \cup {Null} : LoadSettle(l, row)

\* A profile update settles: the remote store reports success or an error.
ProfileWritten ==
    \E w \in BagToSet(writes), error \in {NoError, "PostgrestError"} :
       WriteSettle(w, error)

\* The Session Store: identity under provider events and mutating calls made
\* at any time by any component.
Next ==
    \/ GetSession /\ NoOther
    \/ AuthEvent /\ NoOther
    \/ TimerFire /\ NoOther
    \/ ProfileLoaded /\ NoOther
    \/ \E u \in Partials : updateProfile(u) /\ NoOther
    \/ \E a \in OnboardingArgs :
          completeOnboarding(a.avatar, a.genres) /\ NoOther
    \/ \E m \in MovieIds : addToWatchlist(m) /\ NoOther
    \/ \E m \in MovieIds : removeFromWatchlist(m) /\ NoOther
    \/ ProfileWritten /\ NoOther

Spec == Init /\ [][Next]_vars

\* The mutating operations on the identity loaded when the page starts.
NextWrites ==
    \/ GetSession /\ NoOther
    \/ ProfileLoaded /\ NoOther
    \/ \E u \in Partials : updateProfile(u) /\ NoOther
    \/ \E a \in OnboardingArgs :
          completeOnboarding(a.avatar, a.genres) /\ NoOther
    \/ \E m \in MovieIds : addToWatchlist(m) /\ NoOther
    \/ \E m \in MovieIds : removeFromWatchlist(m) /\ NoOther
    \/ ProfileWritten /\ NoOther

SpecWrites == Init /\ [][NextWrites]_vars

\* login, signup and logout among provider events, profile loads and
\* watchlist writes, and the page load their navigation causes.
NextAuth ==
    \/ GetSession /\ NoOther
    \/ AuthEvent /\ NoOther
    \/ TimerFire /\ NoOther
    \/ ProfileLoaded /\ NoOther
    \/ \E m \in MovieIds : addToWatchlist(m) /\ NoOther
    \/ ProfileWritten /\ NoOther
    \/ login /\ NoOther
    \/ \E o \in SignOutOutcomes : loginAfterSignOut(o) /\ NoOther
    \/ \E o \in SignInOutcomes : loginAfterSignIn(o) /\ NoOther
    \/ signup /\ NoOther
    \/ \E o \in SignInOutcomes : signupAfterSignUp(o) /\ NoOther
    \/ logout /\ NoOther
    \/ \E o \in SignOutOutcomes : logoutAfterSignOut(o) /\ NoOther
    \/ PageLoad

SpecAuth == Init /\ [][NextAuth]_vars

\* History of the watchlist calls: `folded` is the watchlist the profile load
\* delivered with every addToWatchlist / removeFromWatchlist call made since
\* applied to it in call order.  foldOk holds from the load until a write
\* reports an error; the history is not kept after that.
FoldLoaded ==
    IF user' # user
      THEN folded' = user'.watchlist /\ foldOk' = TRUE
      ELSE UNCHANGED foldVars
FoldAdd(movieId) ==
    IF ~Gated /\ foldOk
      THEN /\ Len(folded) < MaxWatchlist
           /\ folded' = Append(folded, movieId)
           /\ UNCHANGED foldOk
      ELSE UNCHANGED foldVars
FoldRemove(movieId) ==
    IF ~Gated /\ foldOk
      THEN /\ folded' = SelectSeq(folded, LAMBDA x : x # movieId)
           /\ UNCHANGED foldOk
      ELSE UNCHANGED foldVars
FoldWritten ==
    IF ret'.value = "threw"
      THEN folded' = <<>> /\ foldOk' = FALSE
      ELSE UNCHANGED foldVars

NoFold == UNCHANGED <<remoteVars, formVars, viewVars>>

\* Sequences of watchlist calls on the identity loaded when the page starts.
NextWatchlist ==
    \/ GetSession /\ NoOther
    \/ ProfileLoaded /\ FoldLoaded /\ NoFold
    \/ \E m \in MovieIds : addToWatchlist(m) /\ FoldAdd(m) /\ NoFold
    \/ \E m \in MovieIds : removeFromWatchlist(m) /\ FoldRemove(m) /\ NoFold
    \/ ProfileWritten /\ FoldWritten /\ NoFold

SpecWatchlist == Init /\ [][NextWatchlist]_vars

NoStore == UNCHANGED <<storeVars, histVars>>

\* The signup form over the store's signup operation.
NextForm ==
    \/ \E v \in Typed : setPassword(v) /\ NoStore /\ NoView
    \/ \E v \in Typed : setConfirmPassword(v) /\ NoStore /\ NoView
    \/ handleSubmit /\ NoView /\ UNCHANGED histVars
    \/ \E o \in SignInOutcomes :
          handleSubmitAfterSignup(o) /\ NoView /\ UNCHANGED histVars
    \/ PageLoad

SpecForm == Init /\ [][NextForm]_vars

\* The detail page over the metadata client.
NextView ==
    \/ \E t \in RouteTypes, i \in RouteIds : Mount(t, i) /\ NoStore /\ NoForm
    \/ \E t \in RouteTypes, i \in RouteIds :
          RouteChange(t, i) /\ NoStore /\ NoForm
    \/ \E f \in BagToSet(fetches), rejected \in BOOLEAN, data \in Details :
          FetchSettle(f, rejected, data) /\ NoStore /\ NoForm
    \/ Unmount /\ NoStore /\ NoForm

SpecView == Init /\ [][NextView]_vars

\* The session lifecycle alone: the initial session query, provider events,
\* deferred tasks and profile loads.
NextSession ==
    \/ GetSession /\ NoOther
    \/ AuthEvent /\ NoOther
    \/ TimerFire /\ NoOther
    \/ ProfileLoaded /\ NoOther

SpecSession == Init /\ [][NextSession]_vars

\* The same with every provider call that was started settling eventually,
\* and every scheduled task running eventually.
SpecSessionFair ==
    /\ SpecSession
    /\ WF_vars(GetSession /\ NoOther)
    /\ WF_vars(TimerFire /\ NoOther)
    /\ WF_vars(ProfileLoaded /\ NoOther)

\* The detail page of movie 1 over the store: the page's two buttons among
\* the session lifecycle and the writes the toggle sends.
NextDetail ==
    \/ GetSession /\ NoOther
    \/ AuthEvent /\ NoOther
    \/ TimerFire /\ NoOther
    \/ ProfileLoaded /\ NoOther
    \/ ProfileWritten /\ NoOther
    \/ Mount("movie", <<"1">>) /\ NoStore /\ NoForm
    \/ \E f \in BagToSet(fetches), rejected \in BOOLEAN :
          FetchSettle(f, rejected, [runtime |-> 135]) /\ NoStore /\ NoForm
    \/ handleWatch /\ NoStore /\ NoForm
    \/ handleWatchlistToggle /\ NoForm /\ UNCHANGED histVars

SpecDetail == Init /\ [][NextDetail]_vars

\* The ids passed to the watchlist operations when the order of the elements
\* matters.
ListIds == {1, 2}

\* The two watchlist operations over two ids, on the identity of u1.
NextLists ==
    \/ GetSessionSettle("u1", FALSE) /\ NoOther
    \/ ProfileLoaded /\ NoOther
    \/ \E m \in ListIds : addToWatchlist(m) /\ NoOther
    \/ \E m \in ListIds : removeFromWatchlist(m) /\ NoOther
    \/ ProfileWritten /\ NoOther

SpecLists == Init /\ [][NextLists]_vars

\* The remote profiles table, for the row of the loaded identity: the select
\* returns what the row holds; an update that arrives is applied to the row
\* (the last to arrive wins); its response travels back on its own.
RemoteLoaded ==
    /\ remote' = IF user' # Null THEN user'.watchlist ELSE remote
    /\ UNCHANGED applied

RemoteApply(w) ==
    /\ nav = "none"
    /\ CopiesIn(w, writes) > CopiesIn(w, applied)
    /\ applied' = applied (+) SetToBag({w})
    /\ remote' = IF "watchlist" \in DOMAIN w.updates
                   THEN w.updates.watchlist ELSE remote
    /\ UNCHANGED <<storeVars, foldVars, formVars, viewVars>>

\* The response of a write: success for a write the table has applied, an
\* error for one it has not.
RemoteAnswered(w, error) ==
    /\ IF error = NoError
         THEN /\ BagIn(w, applied)
              /\ applied' = applied (-) SetToBag({w})
         ELSE /\ CopiesIn(w, writes) > CopiesIn(w, applied)
              /\ UNCHANGED applied
    /\ UNCHANGED remote

NoRemote == UNCHANGED <<foldVars, formVars, viewVars>>

\* Overlapping watchlist calls of one client against the remote table.
NextRemote ==
    \/ GetSession /\ NoOther
    \/ ProfileLoaded /\ RemoteLoaded /\ NoRemote
    \/ \E m \in MovieIds : addToWatchlist(m) /\ NoOther
    \/ \E m \in MovieIds : removeFromWatchlist(m) /\ NoOther
    \/ \E w \in BagToSet(writes) : RemoteApply(w)
    \/ \E w \in BagToSet(writes), error \in {NoError, "PostgrestError"} :
          WriteSettle(w, error) /\ RemoteAnswered(w, error) /\ NoRemote

SpecRemote == Init /\ [][NextRemote]_vars

\* ================================================================ claims

\* C1 (SpecWatchlist).  Once every addToWatchlist / removeFromWatchlist call
\* made on the loaded identity has settled, and all of them successfully, the
\* local watchlist is the loaded watchlist with the calls applied in call order
\* (add = append, remove = drop every equal element), also when a call was made
\* before the previous call's write had settled.
C1_FinalWatchlistIsFoldOfCalls ==
    (foldOk /\ user # Null /\ writes = EmptyBag) => user.watchlist = folded

\* C2 (Spec).  While Session is null, no call of updateProfile,
\* completeOnboarding, addToWatchlist or removeFromWatchlist sends a profile
\* write or changes the local Identity.
C2_NoWriteWithoutSession ==
    [][session = NoSession =>
          BagCardinality(writes') <= BagCardinality(writes)]_vars

\* C3 (Spec).  While Session is null, isInWatchlist(id) is false for every id.
C3_NotInWatchlistWithoutSession ==
    session = NoSession => \A m \in MovieIds : ~isInWatchlist(m)

\* C4 (SpecAuth).  When logout() has completed and the provider's sign-out
\* succeeded, Identity is null, Session is null and the navigation to '/auth'
\* has been issued, whatever loads and writes are in flight.
C4_LogoutClearsAndNavigates ==
    (ret.op = "logout" /\ ret.value = "void" /\ ret.outcome.error = NoError)
        => (user = Null /\ session = NoSession /\ nav = "/auth")

\* Witness of C4: a successful logout with a profile load and a watchlist
\* write in flight.
C4_Witness ==
    /\ ret.op = "logout" /\ ret.value = "void" /\ ret.outcome.error = NoError
    /\ loads # EmptyBag
    /\ writes # EmptyBag

\* C5 (SpecAuth).  When the provider's sign-out fails during logout(), the
\* failure is thrown to the caller, Identity and Session stay as they were and
\* no navigation is issued.
C5_FailedLogoutChangesNothing ==
    [][(ret'.op = "logout" /\ ret'.outcome.error # NoError) =>
          /\ ret'.value = "threw"
          /\ ret'.thrown = ret'.outcome.error
          /\ user' = user /\ session' = session /\ nav' = nav]_vars

\* C6 (SpecAuth).  login returns true and navigates to '/' exactly when the
\* credential sign-in resolved without error and with a user; signup the same
\* with '/onboarding'; when the provider reports an error, that error is what
\* is thrown, and nothing is navigated to.
C6_NavigateOnlyOnSuccess ==
    ret.op \in {"login", "signup"} =>
        LET o == ret.outcome
            succeeded == o.kind = "resolved" /\ o.error = NoError /\ o.hasUser
            route == IF ret.op = "login" THEN "/" ELSE "/onboarding"
        IN  /\ (ret.value = "true") <=> succeeded
            /\ (nav = route) <=> succeeded
            /\ (nav = "none") <=> ~succeeded
            /\ o.error # NoError =>
                 (ret.value = "threw" /\ ret.thrown = o.error /\ nav = "none")

\* Witness of C6: login has completed after the provider answered the
\* credential sign-in with an error.
C6_Witness ==
    /\ ret.op = "login"
    /\ ret.outcome.kind = "resolved"
    /\ ret.outcome.error = "AuthError"

\* C7 (SpecWrites).  A mutating operation called while authenticated leaves
\* the local Identity alone when it is called; when its write reports an error
\* the Identity is unchanged and the error is thrown; the Identity changes
\* only when a write has reported success (or a profile load delivers it).
C7_MergeOnlyAfterSuccess ==
    [][/\ BagCardinality(writes') > BagCardinality(writes) => user' = user
       /\ (ret'.op \in WriteOps /\ ret'.outcome.error # NoError) =>
             /\ user' = user
             /\ ret'.value = "threw"
             /\ ret'.thrown = ret'.outcome.error
       /\ user' # user =>
             \/ /\ ret'.op \in WriteOps
                /\ ret'.value = "void"
                /\ ret'.outcome.kind = "resolved"
                /\ ret'.outcome.error = NoError
             \/ BagCardinality(loads') < BagCardinality(loads)]_vars

\* Witness of C7: completeOnboarding has thrown the remote error, and the
\* identity is still not onboarded.
C7_Witness ==
    /\ ret.op = "completeOnboarding"
    /\ ret.value = "threw"
    /\ user # Null
    /\ ~user.onboarding_completed

\* C8 (Spec).  A non-null Identity implies a non-null Session: nothing that
\* was started before a sign-out repopulates Identity after it.
C8_IdentityImpliesSession ==
    user # Null => session # NoSession

\* C9 (SpecForm).  A submission invokes signup only with password equal to
\* confirmPassword and at least 6 characters long; any other submission
\* invokes nothing and leaves isLoading false.
C9_SignupOnlyWhenValid ==
    LET valid == password = confirmPassword /\ Len(password) >= 6
    IN  /\ formEvent = "invoked" => (valid /\ authOp = "signup:signUp")
        /\ formEvent = "blocked" => (~valid /\ authOp = "idle" /\ ~isLoading)
        /\ formEvent \in {"invoked", "blocked"} =>
              (formEvent = "invoked" <=> valid)

\* Witness of C9: 'abc12' / 'abc12' was submitted.
C9_Witness ==
    /\ formEvent = "blocked"
    /\ password = <<"a", "b", "c", "1", "2">>
    /\ confirmPassword = <<"a", "b", "c", "1", "2">>

\* C10 (SpecView).  When a metadata fetch has rejected, loading is false and
\* content is null.
C10_RejectedFetchShowsNotFound ==
    viewEvent = "rejected" => (viewLoading = FALSE /\ content = Null)

\* C11 (SpecDetail).  Play gating: a 'watch' invoked with no active Session
\* emits the sign-in-required notification and leaves the playing flag as it
\* was, and the playing flag becomes true only in a 'watch' invoked while a
\* Session is active.
C11_PlayOnlyWithSession ==
    [][/\ (viewEvent' = "watch" /\ session = NoSession
             /\ <<viewEvent, toast, isPlaying>> # <<viewEvent', toast', isPlaying'>>)
          => (toast' = "Sign in required" /\ isPlaying' = isPlaying)
       /\ (~isPlaying /\ isPlaying')
          => (viewEvent' = "watch" /\ session # NoSession)]_vars

\* C12 (SpecView).  A fetched content item with a non-negative integer runtime
\* r is shown with the runtime span reading floor(r / 60) hours and r mod 60
\* minutes.
C12_RuntimeShownAsHoursAndMinutes ==
    (DetailRendered /\ "runtime" \in DOMAIN content /\ content.runtime >= 0)
        => LET r == content.runtime
               label == RuntimeLabel(content)
           IN  /\ label.shown = "span"
               /\ label.h = r \div 60
               /\ label.m = r % 60
               /\ 60 * label.h + label.m = r
               /\ 0 <= label.m /\ label.m < 60

\* C13 (SpecSession).  The handler of a SIGNED_IN event with a principal only
\* records the session and schedules a task: in the step that schedules it no
\* profile fetch is started and Identity is not touched, and a profile fetch
\* for an event starts only in the step that runs the oldest scheduled task,
\* for that task's principal.
C13_SignedInLoadIsDeferred ==
    [][/\ Len(timers') > Len(timers) =>
             /\ timers' = Append(timers, session')
             /\ loads' = loads
             /\ user' = user
             /\ loading' = loading
       /\ \A p \in Principals :
             LET l == [authUser |-> p, origin |-> "timer"]
             IN  CopiesIn(l, loads') > CopiesIn(l, loads) =>
                   /\ timers # <<>>
                   /\ Head(timers) = p
                   /\ timers' = Tail(timers)
                   /\ session' = session]_vars

\* Witness of C13: the task scheduled for u1's sign-in has started the profile
\* fetch, by which time the session is already another one.
C13_Witness ==
    /\ BagIn([authUser |-> "u1", origin |-> "timer"], loads)
    /\ session = "u2"
    /\ timers = <<"u2">>

\* C14 (SpecWrites).  On the initial load, with no auth event delivered: in
\* the step in which the store leaves Loading, Identity is non-null exactly
\* when the provider reported a session and the profile fetch for that
\* session's user returned a record, and it is then built from that record;
\* with no session, a failed session query or a failed profile fetch Identity
\* is null.  A profile fetch is started only by the session query, which never
\* runs again: the fetch is not retried.
C14_InitialLoadOutcome ==
    [][/\ (loading /\ ~loading') =>
             LET fetched == /\ session' # NoSession
                            /\ ret'.op = "loadUserProfile"
                            /\ ret'.outcome.error = NoError
             IN  /\ user' # Null <=> fetched
                 /\ fetched => /\ user'.id = session'
                               /\ user'.email = EmailOf(session')
                 /\ loads' = EmptyBag
                 /\ getSessionPc' = "done"
       /\ BagCardinality(loads') > BagCardinality(loads) =>
             /\ getSessionPc = "pending"
             /\ loads = EmptyBag
       /\ getSessionPc # "pending" => getSessionPc' # "pending"]_vars

\* Witness of C14: the store has left Loading after the profile fetch for
\* the reported session failed.
C14_Witness ==
    /\ ~loading
    /\ session # NoSession
    /\ ret.op = "loadUserProfile"
    /\ ret.outcome.error # NoError
    /\ user = Null

\* C15 (SpecSessionFair).  The store starts with loading true (StoreInit);
\* when every provider call that was started settles and every scheduled task runs,
\* loading becomes false, whatever the session query and the profile fetch
\* answer; and once false, loading is never true again.
C15_LoadingEnds ==
    /\ loading ~> ~loading
    /\ [][~loading => ~loading']_vars

\* Witness of C15: the session query was rejected, loading is false, and a
\* profile load for a later sign-in is in flight.
C15_Witness ==
    /\ ~loading
    /\ getSessionPc = "done"
    /\ session # NoSession
    /\ user = Null
    /\ loads # EmptyBag

\* C16 (SpecAuth).  In a login call the credential sign-in is requested only
\* in the step in which the call's global sign-out has settled, and a login
\* call completes with the answer of a credential sign-in only after that: no
\* sign-in request is made before or without the sign-out.
C16_SignInAfterSignOut ==
    [][/\ (authOp' = "login:signIn" /\ authOp # "login:signIn")
             => authOp = "login:signOut"
       /\ (authOp' = "login:signOut" /\ authOp # "login:signOut")
             => authOp = "idle"
       /\ (ret'.op = "login" /\ ret' # ret
             /\ "hasUser" \in DOMAIN ret'.outcome)
             => authOp = "login:signIn"]_vars

\* Witness of C16: with a session present, login has got past the sign-out
\* and the credential sign-in is awaited.
C16_Witness ==
    /\ authOp = "login:signIn"
    /\ session # NoSession
    /\ user # Null

\* C17 (SpecDetail).  The watchlist toggle of the detail view: with no
\* Session it sends no watchlist write; with a Session it makes exactly one
\* call for the content id, removeFromWatchlist when isInWatchlist(id) and
\* addToWatchlist otherwise; and when that call's write has settled
\* successfully, isInWatchlist(id) is the negation of what it was when the
\* toggle was made (so a second settled toggle restores the membership).
C17_ToggleFlipsMembership ==
    [][/\ session = NoSession =>
             BagCardinality(writes') <= BagCardinality(writes)
       /\ BagCardinality(writes') > BagCardinality(writes) =>
             /\ viewEvent' = "toggle"
             /\ \E w \in BagToSet(writes') :
                   /\ writes' = writes (+) SetToBag({w})
                   /\ w.captured = user
                   /\ w.op = IF isInWatchlist(content.id)
                               THEN "removeFromWatchlist" ELSE "addToWatchlist"
                   /\ w.updates.watchlist =
                         IF isInWatchlist(content.id)
                           THEN RemoveUpdated(user.watchlist, content.id)
                           ELSE AddUpdated(user.watchlist, content.id)
       /\ (BagCardinality(writes') < BagCardinality(writes)
             /\ ret'.op \in WatchlistOps /\ ret'.value = "void") =>
             \E w \in BagToSet(writes) :
                /\ writes' = writes (-) SetToBag({w})
                /\ w.op = ret'.op
                /\ \A m \in MovieIds :
                      (m \in Range(user'.watchlist))
                         <=> ~(m \in Range(w.captured.watchlist))]_vars

C19_LocalWatchlistIsRemote ==
    (user # Null /\ writes = EmptyBag) => user.watchlist = remote

\* C20 (SpecWrites).  A successful Identity mutation changes only the fields
\* it names and leaves every other field of Identity as it is at the moment of
\* the merge: watchlist for addToWatchlist / removeFromWatchlist; avatar,
\* genre_preferences and onboarding_completed for completeOnboarding; the keys
\* of the partial for updateProfile; also when the operation overlapped with
\* another one that finished before it.
C20_MutationKeepsOtherFields ==
    [][(BagCardinality(writes') < BagCardinality(writes)
          /\ ret'.op \in WriteOps /\ ret'.value = "void" /\ user # Null) =>
          \E w \in BagToSet(writes) :
             /\ writes' = writes (-) SetToBag({w})
             /\ w.op = ret'.op
             /\ LET named ==
                      IF w.op \in WatchlistOps THEN {"watchlist"}
                      ELSE IF w.op = "completeOnboarding"
                      THEN {"avatar", "genre_preferences",
                            "onboarding_completed"}
                      ELSE DOMAIN w.updates
                IN  /\ DOMAIN user' = DOMAIN user
                    /\ \A k \in DOMAIN user \ named : user'[k] = user[k]
                    /\ \A k \in named : user'[k] = w.updates[k]]_vars

\* C21 (SpecView).  On the detail page at a route with an id: once every
\* metadata fetch the page issued has settled, the content shown, when there
\* is one, is the content fetched for the current kind and id, in whatever
\* order overlapping fetches settled; and loading is true whenever the fetch
\* for the current kind and id is still in flight.
C21_ContentIsOfCurrentRoute ==
    (mounted /\ routeId # <<>>) =>
        LET current == [type |-> routeType, id |-> parseInt(routeId)]
        IN  /\ (fetches = EmptyBag /\ content # Null) =>
                  (content.id = current.id /\ content.kind = current.type)
            /\ BagIn(current, fetches) => viewLoading

\* C22 (SpecSession).  Whenever no profile load is pending (none in flight,
\* none scheduled) and Identity and Session are both non-null, Identity.id is
\* the id of the Session's user principal; also after a SIGNED_IN event for
\* another principal whose profile fetch fails, and after two profile loads
\* for different principals have settled out of order.
C22_IdentityIsOfSessionPrincipal ==
    (loads = EmptyBag /\ timers = <<>> /\ user # Null /\ session # NoSession)
        => user.id = session

====
